---- MODULE Spec2Model ----
(***************************************************************************)
(* Model of List_set<T> (src/old/cpp_list_sets/src/List_set.h): a sorted   *)
(* set kept in a singly linked chain of nodes between a head and a tail    *)
(* sentinel.  Nodes live in a heap of numbered cells; a link_t             *)
(* (std::unique_ptr<Node>) is a cell number, or Null when empty.           *)
(***************************************************************************)
EXTENDS Integers, Sequences, FiniteSets, TLC

\* ---- bounds ----
MaxKey == 1
NumThreads == 2

\* the element type T, as a range of int around T{} = 0
Keys == -1..MaxKey
\* one cell per key plus the two sentinels
NumNodes == Cardinality(Keys) + 2
NodeIds == 1..NumNodes
Null == 0
Threads == 1..NumThreads

\* T{} for the element type (int): what `new Node{}` leaves in `element`
DefaultElement == 0

VARIABLES
    element,    \* Node::element of every cell
    next,       \* Node::next of every cell
    alloc,      \* the cells that hold a live Node
    link_,      \* List_set::link_, the head of the list
    lastOp,     \* sequential client: the last call made
    lastKey,    \*   its argument
    lastRet,    \*   its result
    prevOp,     \* sequential client: the call before the last one
    prevKey,    \*   its argument
    prevRet,    \*   its result
    refSet,     \* reference set: keys whose insert/remove returned true
    mutex,      \* coarse lock: the thread holding it, or Null
    op,         \* per thread: the operation it runs
    key,        \* per thread: its argument
    pc,         \* per thread: position in the operation
    ptr,        \* per thread: find_predecessor's `ptr`, then `prev`
    tmp,        \* per thread: new_node (insert) / the pointer being moved (remove)
    ret,        \* per thread: the value returned
    set0        \* the set's elements when the threads were started

heapVars == <<element, next, alloc, link_>>
seqVars == <<lastOp, lastKey, lastRet, prevOp, prevKey, prevRet, refSet>>
thrVars == <<mutex, op, key, pc, ptr, tmp, ret, set0>>
vars == <<element, next, alloc, link_, lastOp, lastKey, lastRet,
          prevOp, prevKey, prevRet, refSet,
          mutex, op, key, pc, ptr, tmp, ret, set0>>

\* The heap as one value
Heap == [element |-> element, next |-> next, alloc |-> alloc, link_ |-> link_]

\* ---- Node ----
\* struct Node { T element; link_t next; }
Node(e, n) == [element |-> e, next |-> n]

\* Node_base<T>::is_last(): the node has no successor
is_last(h, n) == h.next[n] = Null

\* `new Node{}`: the lowest free cell, value-initialised
new_Node(h) == CHOOSE n \in NodeIds \ h.alloc : \A m \in NodeIds \ h.alloc : n <= m

HasFree(h) == NodeIds \ h.alloc # {}

\* destruction of a Node whose `next` is already empty
delete_Node(h, n) ==
    [h EXCEPT !.alloc = @ \ {n}, !.element[n] = DefaultElement, !.next[n] = Null]

\* ---- List_set() ----
\* tail and head are allocated in this order; head->next = tail; link_ = head
List_set ==
    LET h0 == [element |-> [n \in NodeIds |-> DefaultElement],
               next |-> [n \in NodeIds |-> Null],
               alloc |-> {}, link_ |-> Null]
        tail == new_Node(h0)
        h1 == [h0 EXCEPT !.alloc = @ \cup {tail}]
        head_ == new_Node(h1)
        h2 == [h1 EXCEPT !.alloc = @ \cup {head_}]
        h3 == [h2 EXCEPT !.next[head_] = tail]
    IN [h3 EXCEPT !.link_ = head_]

\* ---- find_predecessor ----
\* the loop of find_predecessor stops at ptr: `ptr->next->is_last()` or
\* `key <= ptr->next->element`
fp_stop_lt(h, p, k) == is_last(h, h.next[p]) \/ k < h.element[h.next[p]]

fp_stop(h, p, k) == is_last(h, h.next[p]) \/ k <= h.element[h.next[p]]

RECURSIVE fp_walk_next(_, _, _)
fp_walk_next(h, p, k) == IF fp_stop(h, p, k) THEN h.next[p] ELSE fp_walk_next(h, h.next[p], k)

RECURSIVE fp_walk(_, _, _)
fp_walk(h, p, k) == IF fp_stop(h, p, k) THEN p ELSE fp_walk(h, h.next[p], k)

find_predecessor(h, k) == fp_walk(h, h.link_, k)

\* the values `ptr` takes in the loop of find_predecessor, first to last;
\* the walk is cut after `fuel` nodes
RECURSIVE fp_visited(_, _, _, _)
fp_visited(h, p, k, fuel) ==
    IF fuel = 0 THEN <<>>
    ELSE IF fp_stop(h, p, k) THEN <<p>>
    ELSE <<p>> \o fp_visited(h, h.next[p], k, fuel - 1)

\* ---- matches ----
matches_nolast(h, prev, k) == h.element[h.next[prev]] = k

matches(h, prev, k) == ~is_last(h, h.next[prev]) /\ h.element[h.next[prev]] = k

\* ---- member ----
member(h, k) == matches(h, find_predecessor(h, k), k)

\* ---- remove: prev.next = std::move(prev.next->next) ----
\* unique_ptr move assignment is reset(release()):
\* release() empties the victim's link and yields the pointer it held
remove_release(h, prev) == [h EXCEPT !.next[h.next[prev]] = Null]

remove_reset_skip(h, prev, p) ==
    IF h.next[p] # Null THEN [h EXCEPT !.next[prev] = h.next[p]]
    ELSE [h EXCEPT !.next[prev] = p]

\* reset(p) stores p in prev.next ...
remove_reset(h, prev, p) == [h EXCEPT !.next[prev] = p]

\* the whole statement of line 71: release, reset, destroy the old node
unlink_keep(h, prev) == h

unlink(h, prev) ==
    LET victim == h.next[prev]
        p == h.next[victim]
    IN delete_Node(remove_reset(remove_release(h, prev), prev, p), victim)

remove(h, k) ==
    LET prev == find_predecessor(h, k)
    IN IF ~matches(h, prev, k) THEN [heap |-> h, ret |-> FALSE]
       ELSE [heap |-> unlink(h, prev), ret |-> TRUE]

\* ---- insert ----
\* lines 80-81: new_node{new Node{}}; new_node->element = std::move(key)
insert_new_noelem(h, k) ==
    LET n == new_Node(h) IN [h EXCEPT !.alloc = @ \cup {n}]

insert_new(h, k) ==
    LET n == new_Node(h) IN [h EXCEPT !.alloc = @ \cup {n}, !.element[n] = k]

\* line 82: new_node->next = std::move(prev.next), which empties prev.next
insert_move_back(h, prev, n) == [h EXCEPT !.next[n] = prev, !.next[prev] = Null]

insert_move(h, prev, n) == [h EXCEPT !.next[n] = h.next[prev], !.next[prev] = Null]

\* line 83: prev.next = std::move(new_node)
insert_link(h, prev, n) == [h EXCEPT !.next[prev] = n]

insert(h, k) ==
    LET prev == find_predecessor(h, k)
    IN IF matches(h, prev, k) THEN [heap |-> h, ret |-> FALSE]
       ELSE LET n == new_Node(h)
            IN [heap |-> insert_link(insert_move(insert_new(h, k), prev, n), prev, n),
                ret |-> TRUE]

\* ---- head ----
head(h) == h.link_

\* ---- Node::get_element, Node::get_next ----
get_element(h, n) == h.element[n]

get_next(h, n) == h.next[n]

\* ---- the sequential client ----
SetHeap(h) ==
    /\ element' = h.element
    /\ next' = h.next
    /\ alloc' = h.alloc
    /\ link_' = h.link_

Init ==
    /\ element = List_set.element
    /\ next = List_set.next
    /\ alloc = List_set.alloc
    /\ link_ = List_set.link_
    /\ lastOp = "List_set" /\ lastKey = 0 /\ lastRet = FALSE
    /\ prevOp = "none" /\ prevKey = 0 /\ prevRet = FALSE
    /\ refSet = {}
    /\ mutex = Null
    /\ op = [t \in Threads |-> "none"]
    /\ key = [t \in Threads |-> 0]
    /\ pc = [t \in Threads |-> "done"]
    /\ ptr = [t \in Threads |-> Null]
    /\ tmp = [t \in Threads |-> Null]
    /\ ret = [t \in Threads |-> FALSE]
    /\ set0 = {}

\* the client remembers the call it made before this one
Shift == prevOp' = lastOp /\ prevKey' = lastKey /\ prevRet' = lastRet

Member(k) ==
    /\ lastOp' = "member" /\ lastKey' = k
    /\ lastRet' = member(Heap, k)
    /\ Shift
    /\ UNCHANGED <<heapVars, refSet, thrVars>>

Insert(k) ==
    \* the heap is bounded: a call that allocates needs a free cell
    /\ matches(Heap, find_predecessor(Heap, k), k) \/ HasFree(Heap)
    /\ LET r == insert(Heap, k)
       IN /\ SetHeap(r.heap)
          /\ lastOp' = "insert" /\ lastKey' = k /\ lastRet' = r.ret
          /\ refSet' = IF r.ret THEN refSet \cup {k} ELSE refSet
    /\ Shift
    /\ UNCHANGED thrVars

Remove(k) ==
    /\ LET r == remove(Heap, k)
       IN /\ SetHeap(r.heap)
          /\ lastOp' = "remove" /\ lastKey' = k /\ lastRet' = r.ret
          /\ refSet' = IF r.ret THEN refSet \ {k} ELSE refSet
    /\ Shift
    /\ UNCHANGED thrVars

Next ==
    \/ \E k \in Keys : Member(k)
    \/ \E k \in Keys : Insert(k)
    \/ \E k \in Keys : Remove(k)

Spec == Init /\ [][Next]_vars

\* ---- threads over one shared set, under the coarse lock ----
\* the set holding the keys of S, built by insert calls on a new List_set
RECURSIVE BuildSet(_, _)
BuildSet(h, S) ==
    IF S = {} THEN h
    ELSE LET k == CHOOSE x \in S : \A y \in S : x <= y
         IN BuildSet(insert(h, k).heap, S \ {k})

ThreadOps == {"insert", "remove", "member"}

InitLock ==
    /\ \E S \in SUBSET Keys :
        /\ element = BuildSet(List_set, S).element
        /\ next = BuildSet(List_set, S).next
        /\ alloc = BuildSet(List_set, S).alloc
        /\ link_ = BuildSet(List_set, S).link_
        /\ set0 = S
        /\ refSet = S
    /\ lastOp = "none" /\ lastKey = 0 /\ lastRet = FALSE
    /\ prevOp = "none" /\ prevKey = 0 /\ prevRet = FALSE
    /\ mutex = Null
    /\ op \in [Threads -> ThreadOps]
    /\ key \in [Threads -> Keys]
    /\ pc = [t \in Threads |-> "call"]
    /\ ptr = [t \in Threads |-> Null]
    /\ tmp = [t \in Threads |-> Null]
    /\ ret = [t \in Threads |-> FALSE]

\* the lock is taken on entry to member/insert/remove ...
lock(t) ==
    /\ pc[t] = "call" /\ mutex = Null
    /\ mutex' = t
    /\ pc' = [pc EXCEPT ![t] = "fp_init"]
    /\ UNCHANGED <<heapVars, seqVars, op, key, ptr, tmp, ret, set0>>

\* ... and released when the call returns
unlock(t) ==
    /\ pc[t] = "unlock" /\ mutex = t
    /\ mutex' = Null
    /\ pc' = [pc EXCEPT ![t] = "done"]
    /\ ptr' = [ptr EXCEPT ![t] = Null]
    /\ UNCHANGED <<heapVars, seqVars, op, key, tmp, ret, set0>>

\* find_predecessor: ptr = &*link_
FpInit(t) ==
    /\ pc[t] = "fp_init"
    /\ ptr' = [ptr EXCEPT ![t] = link_]
    /\ pc' = [pc EXCEPT ![t] = "fp_loop"]
    /\ UNCHANGED <<heapVars, seqVars, mutex, op, key, tmp, ret, set0>>

\* find_predecessor: one test of the loop, then ptr = &*ptr->next or return
FpLoop(t) ==
    /\ pc[t] = "fp_loop"
    /\ IF fp_stop(Heap, ptr[t], key[t])
       THEN pc' = [pc EXCEPT ![t] = "matches"] /\ ptr' = ptr
       ELSE ptr' = [ptr EXCEPT ![t] = next[ptr[t]]] /\ pc' = pc
    /\ UNCHANGED <<heapVars, seqVars, mutex, op, key, tmp, ret, set0>>

\* member: return matches(prev, key)
MemberMatches(t) ==
    /\ pc[t] = "matches" /\ op[t] = "member"
    /\ ret' = [ret EXCEPT ![t] = matches(Heap, ptr[t], key[t])]
    /\ pc' = [pc EXCEPT ![t] = "unlock"]
    /\ UNCHANGED <<heapVars, seqVars, mutex, op, key, ptr, tmp, set0>>

\* remove: if (!matches(prev, key)) return false
RemoveMatches(t) ==
    /\ pc[t] = "matches" /\ op[t] = "remove"
    /\ IF ~matches(Heap, ptr[t], key[t])
       THEN pc' = [pc EXCEPT ![t] = "unlock"]
       ELSE pc' = [pc EXCEPT ![t] = "rm_release"]
    /\ ret' = [ret EXCEPT ![t] = FALSE]
    /\ UNCHANGED <<heapVars, seqVars, mutex, op, key, ptr, tmp, set0>>

\* remove: std::move(prev.next->next) takes the victim's link
RemoveRelease(t) ==
    /\ pc[t] = "rm_release"
    /\ tmp' = [tmp EXCEPT ![t] = next[next[ptr[t]]]]
    /\ SetHeap(remove_release(Heap, ptr[t]))
    /\ pc' = [pc EXCEPT ![t] = "rm_reset"]
    /\ UNCHANGED <<seqVars, mutex, op, key, ptr, ret, set0>>

\* remove: prev.next takes the moved pointer; the old node is still held
RemoveReset(t) ==
    /\ pc[t] = "rm_reset"
    /\ tmp' = [tmp EXCEPT ![t] = next[ptr[t]]]
    /\ SetHeap(remove_reset(Heap, ptr[t], tmp[t]))
    /\ pc' = [pc EXCEPT ![t] = "rm_delete"]
    /\ UNCHANGED <<seqVars, mutex, op, key, ptr, ret, set0>>

\* remove: the old node is destroyed; return true
RemoveDelete(t) ==
    /\ pc[t] = "rm_delete"
    /\ SetHeap(delete_Node(Heap, tmp[t]))
    /\ tmp' = [tmp EXCEPT ![t] = Null]
    /\ ret' = [ret EXCEPT ![t] = TRUE]
    /\ pc' = [pc EXCEPT ![t] = "unlock"]
    /\ UNCHANGED <<seqVars, mutex, op, key, ptr, set0>>

\* insert: if (matches(prev, key)) return false
InsertMatches(t) ==
    /\ pc[t] = "matches" /\ op[t] = "insert"
    /\ IF matches(Heap, ptr[t], key[t])
       THEN pc' = [pc EXCEPT ![t] = "unlock"]
       ELSE pc' = [pc EXCEPT ![t] = "ins_new"]
    /\ ret' = [ret EXCEPT ![t] = FALSE]
    /\ UNCHANGED <<heapVars, seqVars, mutex, op, key, ptr, tmp, set0>>

\* insert: new_node{new Node{}}; new_node->element = std::move(key)
InsertNew(t) ==
    /\ pc[t] = "ins_new"
    /\ HasFree(Heap)
    /\ tmp' = [tmp EXCEPT ![t] = new_Node(Heap)]
    /\ SetHeap(insert_new(Heap, key[t]))
    /\ pc' = [pc EXCEPT ![t] = "ins_move"]
    /\ UNCHANGED <<seqVars, mutex, op, key, ptr, ret, set0>>

\* insert: new_node->next = std::move(prev.next)
InsertMove(t) ==
    /\ pc[t] = "ins_move"
    /\ SetHeap(insert_move(Heap, ptr[t], tmp[t]))
    /\ pc' = [pc EXCEPT ![t] = "ins_link"]
    /\ UNCHANGED <<seqVars, mutex, op, key, ptr, tmp, ret, set0>>

InsertLink_nolink(t) ==
    /\ pc[t] = "ins_link"
    /\ tmp' = [tmp EXCEPT ![t] = Null]
    /\ ret' = [ret EXCEPT ![t] = TRUE]
    /\ pc' = [pc EXCEPT ![t] = "unlock"]
    /\ UNCHANGED <<heapVars, seqVars, mutex, op, key, ptr, set0>>

\* insert: prev.next = std::move(new_node); return true
InsertLink(t) ==
    /\ pc[t] = "ins_link"
    /\ SetHeap(insert_link(Heap, ptr[t], tmp[t]))
    /\ tmp' = [tmp EXCEPT ![t] = Null]
    /\ ret' = [ret EXCEPT ![t] = TRUE]
    /\ pc' = [pc EXCEPT ![t] = "unlock"]
    /\ UNCHANGED <<seqVars, mutex, op, key, ptr, set0>>

NextLock ==
    \/ \E t \in Threads : lock(t)
    \/ \E t \in Threads : FpInit(t)
    \/ \E t \in Threads : FpLoop(t)
    \/ \E t \in Threads : MemberMatches(t)
    \/ \E t \in Threads : RemoveMatches(t)
    \/ \E t \in Threads : RemoveRelease(t)
    \/ \E t \in Threads : RemoveReset(t)
    \/ \E t \in Threads : RemoveDelete(t)
    \/ \E t \in Threads : InsertMatches(t)
    \/ \E t \in Threads : InsertNew(t)
    \/ \E t \in Threads : InsertMove(t)
    \/ \E t \in Threads : InsertLink(t)
    \/ \E t \in Threads : unlock(t)

SpecLock == InitLock /\ [][NextLock]_vars

\* ---- the chain, read off the heap without the set's own operations ----
\* the cells met from n along next, at most `fuel` of them
RECURSIVE Reach(_, _, _)
Reach(h, n, fuel) ==
    IF n = Null \/ fuel = 0 THEN <<>>
    ELSE <<n>> \o Reach(h, h.next[n], fuel - 1)

Chain(h) == Reach(h, h.link_, NumNodes + 1)

Range(s) == {s[i] : i \in 1..Len(s)}

\* the chain ends at a cell with an empty link and meets no cell twice
NoCycle(h) ==
    LET c == Chain(h)
    IN /\ Len(c) >= 1 /\ Len(c) <= NumNodes
       /\ h.next[c[Len(c)]] = Null
       /\ Cardinality(Range(c)) = Len(c)

\* the elements of the non-sentinel nodes, in chain order
ElemSeq(h) ==
    LET c == Chain(h)
    IN [i \in 1..(Len(c) - 2) |-> h.element[c[i + 1]]]

Elems(h) == Range(ElemSeq(h))

StrictlyAscending(s) == \A i \in 1..(Len(s) - 1) : s[i] < s[i + 1]

\* C1: after any sequence of insert and remove calls the chain from the head
\* sentinel to the tail sentinel has no cycle, is strictly ascending over
\* its non-sentinel nodes and holds no element twice.
C1_SortedNoCycleNoDup ==
    /\ NoCycle(Heap)
    /\ Len(Chain(Heap)) >= 2
    /\ StrictlyAscending(ElemSeq(Heap))
    /\ Cardinality(Elems(Heap)) = Len(ElemSeq(Heap))

C1_Witness ==
    /\ lastOp = "remove" /\ lastRet
    /\ prevOp = "insert" /\ prevRet
    /\ Len(ElemSeq(Heap)) >= 2

\* C2: insert(k) returns false iff k is already in the set; a false return
\* leaves the chain unchanged, a true return makes the elements S \cup {k}.
C2_InsertContract ==
    [][lastOp' = "insert" =>
        /\ (lastRet' = FALSE) <=> (lastKey' \in Elems(Heap))
        /\ lastRet' = FALSE => UNCHANGED heapVars
        /\ lastRet' = TRUE => Elems(Heap)' = Elems(Heap) \cup {lastKey'}]_vars

C2_Witness ==
    /\ lastOp = "insert" /\ lastRet
    /\ Len(ElemSeq(Heap)) >= 2
    /\ lastKey = ElemSeq(Heap)[1]

\* C3: remove(k) returns false iff k is not in the set; a false return leaves
\* the chain unchanged, a true return makes the elements S \ {k}.
C3_RemoveContract ==
    [][lastOp' = "remove" =>
        /\ (lastRet' = FALSE) <=> (lastKey' \notin Elems(Heap))
        /\ lastRet' = FALSE => UNCHANGED heapVars
        /\ lastRet' = TRUE => Elems(Heap)' = Elems(Heap) \ {lastKey'}]_vars

C3_Witness ==
    /\ lastOp = "remove" /\ lastRet
    /\ Len(ElemSeq(Heap)) >= 1
    /\ lastKey < ElemSeq(Heap)[1]

\* C4: member(k) returns true iff k is the element of a non-sentinel node
\* reachable from the head, i.e. iff k is in the reference set built from
\* the insert and remove calls that returned true.
C4_MemberContract ==
    /\ lastOp = "member" =>
        /\ lastRet = (lastKey \in Elems(Heap))
        /\ lastRet = (lastKey \in refSet)
    /\ \A k \in Keys : member(Heap, k) = (k \in refSet)

C4_Witness ==
    /\ lastOp = "member" /\ lastRet
    /\ Len(ElemSeq(Heap)) >= 2
    /\ lastKey = ElemSeq(Heap)[Len(ElemSeq(Heap))]

\* C5: single-threaded, after insert(k) member(k) is true and stays true until
\* the next remove(k); after remove(k) member(k) is false and stays false
\* until the next insert(k); a remove(k) right after a remove(k) returns
\* false; calls on other keys never change member(k).
C5_MemberFollowsCalls ==
    [][\A k \in Keys :
        LET isIns == lastOp' = "insert" /\ lastKey' = k
            isRem == lastOp' = "remove" /\ lastKey' = k
        IN /\ isIns => member(Heap, k)'
           /\ isRem => ~member(Heap, k)'
           /\ (~isRem /\ member(Heap, k)) => member(Heap, k)'
           /\ (~isIns /\ ~member(Heap, k)) => ~member(Heap, k)'
           /\ lastKey' # k => (member(Heap, k)' = member(Heap, k))
           /\ (lastOp' = "member" /\ lastKey' = k /\ lastKey = k
                /\ lastOp \in {"insert", "remove"})
                => (lastRet' = (lastOp = "insert"))
           /\ (isRem /\ lastOp = "remove" /\ lastKey = k) => lastRet' = FALSE
    ]_vars

C5_Witness ==
    /\ prevOp = "remove" /\ prevRet
    /\ lastOp = "remove" /\ lastKey = prevKey /\ ~lastRet
    /\ Len(ElemSeq(Heap)) >= 1

\* C6: two consecutive insert(k) calls return (r, false), r being true
\* exactly when k was absent, and the second call leaves the chain as the
\* first left it.
C6_InsertIdempotent ==
    [][lastOp' = "insert" =>
        /\ lastRet' = (lastKey' \notin Elems(Heap))
        /\ (lastOp = "insert" /\ lastKey = lastKey') =>
              /\ lastRet' = FALSE
              /\ UNCHANGED heapVars
              /\ Chain(Heap)' = Chain(Heap) /\ ElemSeq(Heap)' = ElemSeq(Heap)
    ]_vars

C6_Witness ==
    /\ prevOp = "insert" /\ prevRet
    /\ lastOp = "insert" /\ lastKey = prevKey /\ ~lastRet
    /\ Len(ElemSeq(Heap)) >= 2

\* C7: a newly constructed set is empty: the head sentinel's successor is
\* the tail sentinel, and member(k) and remove(k) return false for every k.
C7_FreshSetEmpty ==
    /\ lastOp = "List_set" =>
        /\ link_ # Null /\ next[link_] # Null
        /\ is_last(Heap, next[link_])
        /\ Elems(Heap) = {}
        /\ \A k \in Keys : ~member(Heap, k) /\ ~remove(Heap, k).ret
    /\ (prevOp = "List_set" /\ lastOp \in {"member", "remove"}) => ~lastRet

C7_Witness ==
    /\ prevOp = "List_set"
    /\ lastOp = "remove" /\ lastKey = DefaultElement /\ ~lastRet

\* ---- threads: the final state ----
AllDone == \A t \in Threads : pc[t] = "done"

\* how many nodes of the chain hold k
Count(h, k) == Cardinality({i \in 1..Len(ElemSeq(h)) : ElemSeq(h)[i] = k})

\* no thread other than t and u works on key k
OnlyThese(t, u, k) == \A v \in Threads \ {t, u} : key[v] # k

\* C8: two threads both call insert(k) on a shared set without k: whatever
\* the interleaving, exactly one call returns true, the other false, and the
\* final chain has exactly one node with element k.
C8_SameKeyInsertRace ==
    \A t, u \in Threads :
        (/\ AllDone /\ t # u
         /\ op[t] = "insert" /\ op[u] = "insert"
         /\ key[t] = key[u] /\ key[t] \notin set0
         /\ OnlyThese(t, u, key[t]))
        => /\ ret[t] # ret[u]
           /\ Count(Heap, key[t]) = 1

C8_Witness ==
    /\ AllDone
    /\ op[1] = "insert" /\ op[2] = "insert"
    /\ key[1] = key[2] /\ key[1] \notin set0
    /\ OnlyThese(1, 2, key[1])
    /\ ~ret[1] /\ ret[2]
    /\ set0 # {}

\* C9: every thread inserts a key of its own: whatever the interleaving, the
\* final set is the initial set united with all the keys, and member is true
\* for every inserted key.
C9_DisjointInsertsKept ==
    (/\ AllDone
     /\ \A t \in Threads : op[t] = "insert"
     /\ \A t, u \in Threads : t # u => key[t] # key[u])
    => /\ Elems(Heap) = set0 \cup {key[t] : t \in Threads}
       /\ \A t \in Threads : member(Heap, key[t])

C9_Witness ==
    /\ AllDone
    /\ \A t \in Threads : op[t] = "insert" /\ ret[t]
    /\ \A t, u \in Threads : t # u => key[t] # key[u]
    /\ key[1] > key[2]
    /\ set0 # {}

\* C10: one thread calls insert(k), another remove(k): whatever the
\* interleaving, the results and the final chain are those of insert-then-
\* remove or of remove-then-insert, and the final chain has no duplicate
\* node and no unlinked node still reachable from the head.
C10_InsertRemoveRace ==
    \A t, u \in Threads :
        (/\ AllDone /\ t # u
         /\ op[t] = "insert" /\ op[u] = "remove"
         /\ key[t] = key[u]
         /\ OnlyThese(t, u, key[t]))
        => LET k == key[t]
               insFirst == /\ ret[t] = (k \notin set0)
                           /\ ret[u] = TRUE
                           /\ k \notin Elems(Heap)
               remFirst == /\ ret[u] = (k \in set0)
                           /\ ret[t] = TRUE
                           /\ k \in Elems(Heap)
           IN /\ insFirst \/ remFirst
              /\ NumThreads = 2 =>
                   Elems(Heap) \in {set0 \ {k}, set0 \cup {k}}
              /\ NoCycle(Heap)
              /\ Cardinality(Elems(Heap)) = Len(ElemSeq(Heap))
              /\ Range(Chain(Heap)) = alloc

C10_Witness ==
    /\ AllDone
    /\ op[1] = "insert" /\ op[2] = "remove"
    /\ key[1] = key[2] /\ key[1] \in set0
    /\ OnlyThese(1, 2, key[1])
    /\ ~ret[1] /\ ret[2]
    /\ Elems(Heap) # {}

\* ---- the sentinels, as the constructor made them ----
HeadSentinel == List_set.link_
TailSentinel == List_set.next[List_set.link_]

\* C11: find_predecessor(k) returns the node p such that p is the head
\* sentinel or p.element < k, and p's successor is the tail sentinel or has
\* element >= k; if k is in the set, p's successor holds it.
C11_FindPredecessorContract ==
    \A k \in Keys :
        LET p == find_predecessor(Heap, k)
            c == Chain(Heap)
        IN /\ \E i \in 1..(Len(c) - 1) :
                /\ c[i] = p
                \* every node before p's successor is below k ...
                /\ \A j \in 2..i : element[c[j]] < k
                \* ... and p's successor is the first node not below k
                /\ c[i + 1] = TailSentinel \/ element[c[i + 1]] >= k
           /\ p = HeadSentinel \/ element[p] < k
           /\ next[p] = TailSentinel \/ element[next[p]] >= k
           /\ k \in Elems(Heap) =>
                next[p] # TailSentinel /\ element[next[p]] = k

C11_Witness ==
    /\ lastOp = "insert" /\ lastRet
    /\ Len(ElemSeq(Heap)) >= 3
    /\ find_predecessor(Heap, lastKey) # HeadSentinel
    /\ next[next[find_predecessor(Heap, lastKey)]] # TailSentinel

\* C12: find_predecessor(k) terminates for every key on every reachable
\* chain after visiting at most as many nodes as the chain holds; for a key
\* above every stored element it stops at the node just before the tail.
C12_FindPredecessorTerminates ==
    \A k \in Keys :
        LET n == Len(Chain(Heap))
            v == fp_visited(Heap, HeadSentinel, k, n + 1)
        IN /\ Len(v) >= 1 /\ Len(v) <= n
           /\ fp_stop(Heap, v[Len(v)], k)
           /\ v[Len(v)] = find_predecessor(Heap, k)
           /\ Cardinality(Range(v)) = Len(v)
           /\ (\A e \in Elems(Heap) : e < k) =>
                /\ next[v[Len(v)]] = TailSentinel
                /\ Len(v) = n - 1

C12_Witness ==
    /\ lastOp = "member" /\ ~lastRet
    /\ Len(ElemSeq(Heap)) >= 2
    /\ \A e \in Elems(Heap) : e < lastKey
    /\ Len(fp_visited(Heap, HeadSentinel, lastKey, NumNodes)) = Len(Chain(Heap)) - 1

\* C13: the sentinels are permanent: head() is the head sentinel the
\* constructor made, the tail sentinel is the final node of the chain and
\* the only node for which is_last holds, the chain has (number of
\* elements) + 2 nodes, and no remove unlinks a sentinel.
C13_SentinelsPermanent ==
    LET c == Chain(Heap)
    IN /\ head(Heap) = HeadSentinel
       /\ c[1] = HeadSentinel
       /\ c[Len(c)] = TailSentinel
       /\ \A n \in alloc : is_last(Heap, n) <=> n = TailSentinel
       /\ Len(c) = Cardinality(refSet) + 2
       /\ Len(c) = Cardinality(Elems(Heap)) + 2
       /\ {HeadSentinel, TailSentinel} \subseteq alloc

C13_Witness ==
    /\ prevOp = "remove" /\ prevRet
    /\ lastOp = "remove" /\ lastRet
    /\ Len(Chain(Heap)) = 2

\* the heap with value v stored in both sentinels
WithSentinelElement(h, v) ==
    [h EXCEPT !.element[HeadSentinel] = v, !.element[TailSentinel] = v]

\* C14: the element values held by the sentinels never influence a result:
\* for the key equal to the sentinels' default element, on a set without
\* it, member is false, remove is false and insert returns true and puts
\* the key in sorted position, as for any other key.
C14_SentinelElementIgnored ==
    /\ element[HeadSentinel] = DefaultElement
    /\ element[TailSentinel] = DefaultElement
    /\ DefaultElement \notin refSet =>
        /\ ~member(Heap, DefaultElement)
        /\ ~remove(Heap, DefaultElement).ret
        /\ remove(Heap, DefaultElement).heap = Heap
        /\ HasFree(Heap) =>
            LET r == insert(Heap, DefaultElement)
            IN /\ r.ret
               /\ StrictlyAscending(ElemSeq(r.heap))
               /\ Elems(r.heap) = Elems(Heap) \cup {DefaultElement}
               /\ Len(ElemSeq(r.heap)) = Len(ElemSeq(Heap)) + 1
    /\ \A k, v \in Keys :
        LET h2 == WithSentinelElement(Heap, v)
        IN /\ member(h2, k) = member(Heap, k)
           /\ remove(h2, k).ret = remove(Heap, k).ret
           /\ ElemSeq(remove(h2, k).heap) = ElemSeq(remove(Heap, k).heap)
           /\ (HasFree(Heap) \/ k \in refSet) =>
                /\ insert(h2, k).ret = insert(Heap, k).ret
                /\ ElemSeq(insert(h2, k).heap) = ElemSeq(insert(Heap, k).heap)
    /\ (lastKey = DefaultElement /\ lastOp = "insert" /\ lastRet) =>
          DefaultElement \in Elems(Heap) /\ StrictlyAscending(ElemSeq(Heap))

C14_Witness ==
    /\ lastOp = "insert" /\ lastKey = DefaultElement /\ lastRet
    /\ prevOp = "remove" /\ prevKey = DefaultElement /\ ~prevRet
    /\ Len(ElemSeq(Heap)) = 3
    /\ ElemSeq(Heap)[2] = DefaultElement

\* C15: find_predecessor never returns the tail sentinel: for every key the
\* returned node has a non-empty successor link, so matches, insert and
\* remove never dereference an empty link.
C15_PredecessorHasSuccessor ==
    \A k \in Keys :
        LET p == find_predecessor(Heap, k)
        IN /\ p # Null /\ p \in alloc
           /\ p # TailSentinel
           /\ next[p] # Null /\ next[p] \in alloc
           /\ matches(Heap, p, k) => next[next[p]] # Null

C15_Witness ==
    /\ lastOp = "remove" /\ lastRet
    /\ Len(ElemSeq(Heap)) >= 1
    /\ \A e \in Elems(Heap) : e < lastKey
    /\ next[find_predecessor(Heap, lastKey)] = TailSentinel

\* the sequence s without its entries equal to n
Without(s, n) == SelectSeq(s, LAMBDA x : x # n)

\* C16: a successful remove(k) unlinks exactly one node, the one holding k:
\* the predecessor's link becomes that node's former successor and every
\* other node keeps its element, successor and relative position.  A
\* successful insert(k) adds exactly one node between the predecessor and
\* its former successor and changes no other node's element or order.
C16_SpliceFrame ==
    [][/\ (lastOp' = "remove" /\ lastRet') =>
            \E i \in 2..(Len(Chain(Heap)) - 1) :
                LET c == Chain(Heap)
                    prev == c[i - 1]
                    victim == c[i]
                IN /\ element[victim] = lastKey'
                   /\ next'[prev] = next[victim]
                   /\ alloc' = alloc \ {victim}
                   /\ Chain(Heap)' = Without(c, victim)
                   /\ \A m \in alloc \ {victim} : element'[m] = element[m]
                   /\ \A m \in alloc \ {victim, prev} : next'[m] = next[m]
       /\ (lastOp' = "insert" /\ lastRet') =>
            \E i \in 2..Len(Chain(Heap)') - 1 :
                LET c == Chain(Heap)'
                    prev == c[i - 1]
                    n == c[i]
                IN /\ n \notin alloc
                   /\ alloc' = alloc \cup {n}
                   /\ element'[n] = lastKey'
                   /\ next'[prev] = n
                   /\ next'[n] = next[prev]
                   /\ Without(c, n) = Chain(Heap)
                   /\ \A m \in alloc : element'[m] = element[m]
                   /\ \A m \in alloc \ {prev} : next'[m] = next[m]
    ]_vars

C16_Witness ==
    /\ prevOp = "insert" /\ prevRet
    /\ lastOp = "remove" /\ lastRet
    /\ Len(ElemSeq(Heap)) = 2
    /\ ElemSeq(Heap)[1] < lastKey /\ lastKey < ElemSeq(Heap)[2]

\* the diagnostic traversal: from head() through get_next() until is_last
RECURSIVE Traverse(_, _)
Traverse(h, n) ==
    IF is_last(h, n) THEN <<n>> ELSE <<n>> \o Traverse(h, get_next(h, n))

\* the keys of S in ascending order
RECURSIVE Sorted(_)
Sorted(S) ==
    IF S = {} THEN <<>>
    ELSE LET k == CHOOSE x \in S : \A y \in S : x <= y
         IN <<k>> \o Sorted(S \ {k})

\* C17: member(k) and head() leave every node and link unchanged, and the
\* walk from head() through next() until is_last visits the head sentinel,
\* then exactly the set's elements in ascending order, then the tail.
C17_ReadOnlyAndTraversal ==
    /\ [](LET w == Traverse(Heap, head(Heap))
          IN /\ w[1] = HeadSentinel
             /\ w[Len(w)] = TailSentinel
             /\ [i \in 1..(Len(w) - 2) |-> get_element(Heap, w[i + 1])]
                  = Sorted(refSet))
    /\ [][lastOp' = "member" =>
            /\ UNCHANGED <<heapVars, refSet>>
            /\ Traverse(Heap, head(Heap))' = Traverse(Heap, head(Heap))
            /\ lastRet' = (lastKey' \in refSet)]_vars

C17_Witness ==
    /\ prevOp = "remove" /\ prevRet
    /\ lastOp = "member" /\ lastRet
    /\ Len(Traverse(Heap, head(Heap))) = 4

\* the tail sentinel is reachable from the head sentinel, and no node on the
\* way has an empty successor link
Connected(h) ==
    LET c == Chain(h)
    IN /\ Len(c) >= 2
       /\ c[1] = HeadSentinel
       /\ c[Len(c)] = TailSentinel
       /\ \A i \in 1..(Len(c) - 1) : h.next[c[i]] # Null

\* the steps at which a splice has emptied a link of the chain: insert
\* between its lines 82 and 83, remove inside its line 71
MidSplice == {"ins_link", "rm_reset"}

\* C18 as stated: the chain is never disconnected, not even between the
\* individual steps of one insert or remove.
C18_AlwaysConnected == Connected(Heap)

\* C18, amended: the chain is connected before and after every insert and
\* remove and at every step of the splice except while insert has moved
\* prev.next into the new node and not yet linked the new node, and while
\* remove has taken the removed node's link and not yet reset prev.next.
C18_ConnectedOutsideSplice ==
    /\ (\A t \in Threads : pc[t] \notin MidSplice) => Connected(Heap)
    /\ \A t \in Threads :
        /\ pc[t] = "ins_link" =>
             /\ next[ptr[t]] = Null
             /\ Connected(insert_link(Heap, ptr[t], tmp[t]))
        /\ pc[t] = "rm_reset" =>
             /\ next[next[ptr[t]]] = Null
             /\ Connected(remove_reset(Heap, ptr[t], tmp[t]))

C18_Witness ==
    /\ pc[1] = "rm_delete"
    /\ pc[2] = "done" /\ op[2] = "insert" /\ ret[2]
    /\ Connected(Heap)
    /\ Len(Chain(Heap)) >= 3
====
